---- MODULE Spec2Model ----
(***************************************************************************)
(* Ledger engine and loan scheduler of the economy cog (cogs/economy.py). *)
(* Every command handler runs on one asyncio event loop and talks to the  *)
(* store through blocking calls, so the code between two awaits is one    *)
(* atomic step.  A handler is one action; the loan handler, which sleeps  *)
(* twice, is three: loan, loan_phase1 and loan_phase2.                    *)
(*                                                                         *)
(* Spec is the whole ledger; SpecBank, SpecLoan, SpecShop, SpecRace and   *)
(* SpecUse run a part of the commands for more steps or from more stored  *)
(* accounts; SpecBoard is the leaderboard's sort over every small          *)
(* collection.                                                             *)
(*                                                                         *)
(* SpecMetrics is the metrics cog (cogs/metrics_alpha.py): the message     *)
(* listener, the start and stop commands and the hourly metrics_dump loop, *)
(* whose store calls are awaited: the dump is split at its insert_one.     *)
(*                                                                         *)
(* SpecSeries applies the axes computation of utils/graphing.py to every   *)
(* small ascending sequence of snapshots, and SpecDuration applies         *)
(* utils/timezone.py get_timedelta to every short text.                    *)
(***************************************************************************)
EXTENDS Integers, Sequences, FiniteSets, TLC

\* ------------------------------------------------------------------ bounds
MaxSteps == 3          \* commands and timer firings in one behaviour (Spec)
MaxBankSteps == 3      \* the same, for SpecBank
MaxLoanSteps == 5      \* the same, for SpecLoan
MaxShopSteps == 3      \* the same, for SpecShop
MaxRaceSteps == 4      \* the same, for SpecRace
MaxUseSteps == 2       \* the same, for SpecUse
MaxAccounts == 4       \* accounts in the collection the leaderboard lists
MaxBoardCalls == 1     \* leaderboard commands in one behaviour (SpecBoard)
MaxMetricsSteps == 7   \* messages, commands and loop steps in one behaviour
MaxSnapshots == 3      \* snapshots handed to one plot
MaxPlotCalls == 2      \* graphing calls in one behaviour
MaxArgLen == 3         \* characters in a duration argument
MaxConversions == 1    \* conversions in one behaviour
                       \* (SpecMetrics)

\* ---------------------------------------------------------------- universe
Users == {"u1", "u2"}

NoInv == [k \in {} |-> 0]                     \* an account's empty 'inv' dict

\* text of the 'amount' argument of withdraw and deposit, one character per
\* element
AmountTexts ==
    { <<"-", "1">>, <<"3", "0">>, <<"a", "l", "l">>, <<"A", "L", "L">>,
      <<"m", "a", "x">> }

Digits == {"0", "1", "2", "3", "4", "5", "6", "7", "8", "9"}

DigitVal(c) ==
    CASE c = "0" -> 0 [] c = "1" -> 1 [] c = "2" -> 2 [] c = "3" -> 3
      [] c = "4" -> 4 [] c = "5" -> 5 [] c = "6" -> 6 [] c = "7" -> 7
      [] c = "8" -> 8 [] c = "9" -> 9

\* int(amount) raises ValueError unless the text is an optional sign and a
\* non-empty run of digits
IsIntText(s) ==
    LET body == IF Len(s) > 0 /\ s[1] \in {"-", "+"} THEN Tail(s) ELSE s
    IN  /\ Len(body) > 0
        /\ \A i \in 1..Len(body) : body[i] \in Digits

RECURSIVE DigitsVal(_)
DigitsVal(s) ==
    IF Len(s) = 0 THEN 0
    ELSE 10 * DigitsVal(SubSeq(s, 1, Len(s) - 1)) + DigitVal(s[Len(s)])

\* int(amount) for a text that passes IsIntText
IntOf(s) ==
    IF s[1] = "-" THEN 0 - DigitsVal(Tail(s))
    ELSE IF s[1] = "+" THEN DigitsVal(Tail(s))
    ELSE DigitsVal(s)

LowerChar(c) ==
    CASE c = "A" -> "a" [] c = "L" -> "l" [] c = "M" -> "m" [] c = "X" -> "x"
      [] c = "H" -> "h" [] c = "D" -> "d"
      [] OTHER -> c

\* str.lower() on an amount text
LowerText(s) == [i \in 1..Len(s) |-> LowerChar(s[i])]

AllText == <<"a", "l", "l">>

\* int(x) of Python for the product of an integer n and the float num/den:
\* the fraction is dropped, towards zero
TruncDiv(n, den) == IF n >= 0 THEN n \div den ELSE 0 - ((0 - n) \div den)

VARIABLES
    acct,       \* economy_collection: user -> [cash, bank, debt, inv]
    shop,       \* store_collection: item name -> [price, stock, role]
    sched,      \* the suspended loan coroutines, in the order they started:
                \* [user, loan_val, pc]; 'repaid' is history, set when the
                \* loan that started the coroutine is repaid
    cooldown,   \* the <<command, user>> cooldown buckets that are used up
    curLoan,    \* history: user -> index in sched of the outstanding loan, 0 if none
    hist,       \* history: the latest step, and the one before it when the
                \* two make up one of Chains; each with the state before it
    budget,     \* steps left in this behaviour
    listing,    \* what economy_collection.find() gave the leaderboard command
    ranking,    \* leaderboard_data as the command shows it
    author_cache,           \* MetricsAlpha.author_cache: author id -> count
    channel_cache,          \* MetricsAlpha.channel_cache: channel id -> count
    cached_message_count,   \* MetricsAlpha.cached_message_count
    last_stored_time,       \* << >> is None, <<t>> the time of the last dump
    clock,                  \* the hour datetime.now() gives
    bot_metrics,            \* bot.metrics_collection, the real metrics store
    test_metrics,           \* bot.test_metrics_collection, in insertion order
    dump,       \* the metrics_dump loop: where its task stands
    mhist,      \* history: the latest step of the metrics cog, with the
                \* state before it
    owed,       \* history: the caches as a failed write left them, until
                \* the next snapshot is stored
    parsed,     \* the stored snapshots as parse_data hands them to a plot
    plot,       \* << >>, or <<what the latest graphing call gave>>
    timearg,    \* the text a command hands to CustomTimeConverter
    converted   \* << >>, or <<what the converter gave for timearg>>

ledgerVars == <<acct, shop, sched, cooldown, curLoan, hist>>
boardVars == <<listing, ranking>>
metricsVars ==
    <<author_cache, channel_cache, cached_message_count, last_stored_time,
      clock, bot_metrics, test_metrics, dump, mhist, owed>>

utilVars == <<parsed, plot, timearg, converted>>

vars == <<ledgerVars, budget, boardVars, metricsVars, utilVars>>

\* ------------------------------------------------------------------- items
\* item names as typed by users; "rock" is not sold
ItemTexts == {"Heist Tools", "cookie", "rock"}

\* str.lower() on an item name
Lower(s) ==
    CASE s = "Heist Tools" -> "heist tools"
      [] s = "Heist tools" -> "heist tools"
      [] s = "Cookie" -> "cookie"
      [] s = "Rock" -> "rock"
      [] OTHER -> s

\* str.capitalize(): first character upper case, the rest lower case
Capitalize(s) ==
    CASE Lower(s) = "heist tools" -> "Heist tools"
      [] Lower(s) = "cookie" -> "Cookie"
      [] Lower(s) = "rock" -> "Rock"
      [] OTHER -> s

\* the 'stock' field: << >> is None (unlimited), <<n>> a finite stock of n
Unlimited == << >>

InitShop ==
    [name \in {"Heist tools", "Cookie"} |->
        IF name = "Heist tools"
        THEN [price |-> 40, stock |-> Unlimited, role |-> "None"]
        ELSE [price |-> 10, stock |-> <<2>>, role |-> "Baker"]]

\* quantities typed for buy and sell
Quantities == {-1, 1, 3}

\* amounts typed for givemoney and get-loan
GiveAmounts == {-1, 30, 200}
LoanAmounts == {-1, 20, 100}

\* random.randint(lo, hi), sampled at both ends
WorkVals == {50, 200}
SlutRolls == {6, 7}
SlutVals == {60, 200}
CrimeRolls == {4, 5}
CrimeWinVals == {150, 400}
CrimeLoseVals == {150, 250}
RobPercents == {50, 80}
RobFines == {75, 200}

Commands == {"work", "slut", "crime", "rob"}

\* ----------------------------------------------------------------- history
NoArg == [txt |-> << >>, n |-> 0, item |-> "", sid |-> 0]

Rec(op, u, t, arg, out) ==
    [op |-> op, user |-> u, target |-> t, arg |-> arg, out |-> out,
     pre |-> acct, preShop |-> shop, preSched |-> sched, preCd |-> cooldown]

\* the two-step scenarios the properties speak of: a command and the same
\* user's next command
Chains ==
    { <<"withdraw", "deposit">>, <<"loan", "repay_loan">>, <<"buy", "sell">>,
      <<"rob", "rob">>, <<"buy", "loan_phase2">> }

\* the step before is kept when the new step continues one of the scenarios
Step(rec) ==
    /\ budget > 0
    /\ budget' = budget - 1
    /\ UNCHANGED <<boardVars, metricsVars, utilVars>>
    /\ hist' = IF /\ hist # << >>
                  /\ hist[1].user = rec.user
                  /\ <<hist[1].op, rec.op>> \in Chains
               THEN <<rec, hist[1]>>
               ELSE <<rec>>

\* ------------------------------------------------------------------- start
\* The store outlives the process; the coroutines and the cooldown buckets do
\* not.  A fresh account, the account of the specification's example, and an
\* account that holds items:
CleanDocs ==
    { [cash |-> 0, bank |-> 0, debt |-> 0, inv |-> NoInv],
      [cash |-> 100, bank |-> 50, debt |-> 0, inv |-> NoInv] }

\* and an account whose loan was taken before the process started
StoredDocs ==
    CleanDocs \cup
    { [cash |-> 30, bank |-> 10, debt |-> 21,
       inv |-> [k \in {"heist tools", "cookie"} |-> 1]] }

\* no leaderboard asked for yet
IdleBoard ==
    /\ listing = << >>
    /\ ranking = << >>

\* the metrics cog as __init__ leaves it, its loop not started
\* (a dict is a function on the keys it has)
IdleMetrics ==
    /\ author_cache = NoInv
    /\ channel_cache = NoInv
    /\ cached_message_count = 0
    /\ last_stored_time = << >>
    /\ clock = 0
    /\ bot_metrics = << >>
    /\ test_metrics = << >>
    /\ dump = "unstarted"
    /\ mhist = << >>
    /\ owed = << >>

\* nothing plotted and nothing converted yet
IdleUtil ==
    /\ parsed = << >>
    /\ plot = << >>
    /\ timearg = << >>
    /\ converted = << >>

LedgerFrom(docs) ==
    /\ acct \in [Users -> docs]
    /\ shop = InitShop
    /\ sched = << >>
    /\ cooldown = {}
    /\ curLoan = [u \in Users |-> 0]
    /\ hist = << >>

InitLedger(docs) ==
    LedgerFrom(docs) /\ IdleBoard /\ IdleMetrics /\ IdleUtil

Init == InitLedger(CleanDocs) /\ budget = MaxSteps

InitBankOnly == InitLedger(StoredDocs) /\ budget = MaxBankSteps

InitLoan == InitLedger(CleanDocs) /\ budget = MaxLoanSteps

InitShopOnly == InitLedger(StoredDocs) /\ budget = MaxShopSteps

InitRace == InitLedger(CleanDocs) /\ budget = MaxRaceSteps

\* ------------------------------------------------------- withdraw, deposit
\* "all" overwrites cash with the bank balance instead of adding to it
withdraw_doc_overwrite(doc, amount) ==
    IF IsIntText(amount)
    THEN LET a == IntOf(amount)
         IN  IF doc.bank >= a
             THEN [doc |-> [doc EXCEPT !.bank = @ - a, !.cash = @ + a],
                   out |-> "Withdrew"]
             ELSE [doc |-> doc, out |-> "You do not have that much balance"]
    ELSE IF LowerText(amount) = AllText
    THEN [doc |-> [doc EXCEPT !.bank = 0, !.cash = doc.bank],
          out |-> "Withdrew"]
    ELSE [doc |-> doc, out |-> ""]

withdraw_doc(doc, amount) ==
    IF IsIntText(amount)
    THEN LET a == IntOf(amount)
         IN  IF doc.bank >= a
             THEN [doc |-> [doc EXCEPT !.bank = @ - a, !.cash = @ + a],
                   out |-> "Withdrew"]
             ELSE [doc |-> doc, out |-> "You do not have that much balance"]
    ELSE IF LowerText(amount) = AllText
    THEN [doc |-> [doc EXCEPT !.bank = 0, !.cash = doc.cash + doc.bank],
          out |-> "Withdrew"]
    ELSE [doc |-> doc, out |-> ""]

withdraw(u, amount) ==
    LET r == withdraw_doc(acct[u], amount)
    IN  /\ acct' = [acct EXCEPT ![u] = r.doc]
        /\ UNCHANGED <<shop, sched, cooldown, curLoan>>
        /\ Step(Rec("withdraw", u, u, [NoArg EXCEPT !.txt = amount], r.out))

\* the bank is credited but cash is not debited
deposit_doc_nodebit(doc, amount) ==
    IF IsIntText(amount)
    THEN LET a == IntOf(amount)
         IN  IF doc.cash >= a
             THEN [doc |-> [doc EXCEPT !.bank = @ + a], out |-> "Deposited"]
             ELSE [doc |-> doc, out |-> "You don't have that much moni to deposit"]
    ELSE IF LowerText(amount) = AllText
    THEN [doc |-> [doc EXCEPT !.cash = @ - doc.cash, !.bank = @ + doc.cash],
          out |-> "Deposited"]
    ELSE [doc |-> doc, out |-> ""]

deposit_doc(doc, amount) ==
    IF IsIntText(amount)
    THEN LET a == IntOf(amount)
         IN  IF doc.cash >= a
             THEN [doc |-> [doc EXCEPT !.cash = @ - a, !.bank = @ + a],
                   out |-> "Deposited"]
             ELSE [doc |-> doc, out |-> "You don't have that much moni to deposit"]
    ELSE IF LowerText(amount) = AllText
    THEN [doc |-> [doc EXCEPT !.cash = @ - doc.cash, !.bank = @ + doc.cash],
          out |-> "Deposited"]
    ELSE [doc |-> doc, out |-> ""]

deposit(u, amount) ==
    LET r == deposit_doc(acct[u], amount)
    IN  /\ acct' = [acct EXCEPT ![u] = r.doc]
        /\ UNCHANGED <<shop, sched, cooldown, curLoan>>
        /\ Step(Rec("deposit", u, u, [NoArg EXCEPT !.txt = amount], r.out))

\* ------------------------------------------------------- work, slut, crime
\* a command invoked while its bucket is used up, let through
OnCooldown_never(cmd, u) == FALSE

\* @commands.cooldown(1, 3600, BucketType.user): the invocation is refused
\* while the user's bucket for the command is used up, and uses it up otherwise
OnCooldown(cmd, u) == <<cmd, u>> \in cooldown

work(u, rand_val) ==
    IF OnCooldown("work", u)
    THEN /\ UNCHANGED <<acct, shop, sched, cooldown, curLoan>>
         /\ Step(Rec("work", u, u, NoArg, "Time remaining"))
    ELSE /\ acct' = [acct EXCEPT ![u].cash = @ + rand_val]
         /\ cooldown' = cooldown \cup {<<"work", u>>}
         /\ UNCHANGED <<shop, sched, curLoan>>
         /\ Step(Rec("work", u, u, [NoArg EXCEPT !.n = rand_val], "You earned"))

slut(u, roll, rand_val) ==
    IF OnCooldown("slut", u)
    THEN /\ UNCHANGED <<acct, shop, sched, cooldown, curLoan>>
         /\ Step(Rec("slut", u, u, NoArg, "Time remaining"))
    ELSE /\ acct' = [acct EXCEPT ![u].cash =
                        IF roll \in 1..6 THEN @ + rand_val ELSE @ - rand_val]
         /\ cooldown' = cooldown \cup {<<"slut", u>>}
         /\ UNCHANGED <<shop, sched, curLoan>>
         /\ Step(Rec("slut", u, u, [NoArg EXCEPT !.n = rand_val],
                     IF roll \in 1..6 THEN "You earned" ELSE "You lost"))

crime(u, roll, rand_val) ==
    IF OnCooldown("crime", u)
    THEN /\ UNCHANGED <<acct, shop, sched, cooldown, curLoan>>
         /\ Step(Rec("crime", u, u, NoArg, "Time remaining"))
    ELSE /\ acct' = [acct EXCEPT ![u].cash =
                        IF roll \in 1..4 THEN @ + rand_val ELSE @ - rand_val]
         /\ cooldown' = cooldown \cup {<<"crime", u>>}
         /\ UNCHANGED <<shop, sched, curLoan>>
         /\ Step(Rec("crime", u, u, [NoArg EXCEPT !.n = rand_val],
                     IF roll \in 1..4 THEN "You earned" ELSE "You were fined"))

\* 3600 seconds pass since the invocation that used the bucket up
cooldown_expire(cmd, u) ==
    /\ OnCooldown(cmd, u)
    /\ cooldown' = cooldown \ {<<cmd, u>>}
    /\ UNCHANGED <<acct, shop, sched, curLoan>>
    /\ Step(Rec("cooldown_expire", u, u, NoArg, ""))

\* --------------------------------------------------------- loans (get-loan)
\* int(n * (num / den)) for the float num / den: the fraction is dropped,
\* towards zero
IntTimes(n, num, den) == TruncDiv(n * num, den)

\* int(loan_val * 0.05)
loan_fee(loan_val) == IntTimes(loan_val, 5, 100)

\* int(loan_val * 0.1)
default_fee(loan_val) == IntTimes(loan_val, 10, 100)

\* a loan of exactly twice the bank balance is let through
loan_ok_inclusive(user_data, loan_val) ==
    loan_val <= user_data.bank * 2 /\ user_data.debt = 0

loan_ok(user_data, loan_val) ==
    loan_val < user_data.bank * 2 /\ user_data.debt = 0

loan_doc(user_data, loan_val) ==
    [user_data EXCEPT !.debt = @ + (loan_val + loan_fee(loan_val)),
                      !.bank = @ + loan_val]

\* the handler up to its first sleep
loan(u, loan_val) ==
    IF loan_ok(acct[u], loan_val)
    THEN /\ acct' = [acct EXCEPT ![u] = loan_doc(acct[u], loan_val)]
         /\ sched' = Append(sched, [user |-> u, loan_val |-> loan_val,
                                    pc |-> "sleep1", repaid |-> FALSE])
         /\ curLoan' = [curLoan EXCEPT ![u] = Len(sched) + 1]
         /\ UNCHANGED <<shop, cooldown>>
         /\ Step(Rec("loan", u, u, [NoArg EXCEPT !.n = loan_val],
                     "You took a loan"))
    ELSE /\ UNCHANGED <<acct, shop, sched, cooldown, curLoan>>
         /\ Step(Rec("loan", u, u, [NoArg EXCEPT !.n = loan_val],
                     "You cannot take a loan"))

\* the sleeps have fixed lengths, so the coroutines wake in the order they
\* went to sleep
Sleeping(pcs) == {j \in 1..Len(sched) : sched[j].pc \in pcs}

\* after asyncio.sleep(64800): remind, or end
loan_phase1(i) ==
    /\ i \in Sleeping({"sleep1"})
    /\ \A j \in Sleeping({"sleep1"}) : i <= j
    /\ LET u == sched[i].user
           due == acct[u].debt # 0
       IN  /\ sched' = [sched EXCEPT ![i].pc = IF due THEN "sleep2" ELSE "done"]
           /\ UNCHANGED <<acct, shop, cooldown, curLoan>>
           /\ Step(Rec("loan_phase1", u, u, [NoArg EXCEPT !.sid = i],
                       IF due THEN "You're about to default" ELSE ""))

\* the document written without the inventory bought while the loan ran
default_doc_stale(user_data, loan_val) ==
    [user_data EXCEPT !.debt = 0,
                      !.cash = @ - (loan_val + default_fee(loan_val)),
                      !.inv = NoInv]

default_doc(user_data, loan_val) ==
    [user_data EXCEPT !.debt = 0,
                      !.cash = @ - (loan_val + default_fee(loan_val))]

\* after asyncio.sleep(21600): default, or end
loan_phase2(i) ==
    /\ i \in Sleeping({"sleep2"})
    /\ \A j \in Sleeping({"sleep2"}) : i <= j
    /\ LET u == sched[i].user
           due == acct[u].debt # 0
       IN  /\ sched' = [sched EXCEPT ![i].pc = "done"]
           /\ acct' = IF due
                      THEN [acct EXCEPT ![u] = default_doc(acct[u], sched[i].loan_val)]
                      ELSE acct
           /\ curLoan' = IF due THEN [curLoan EXCEPT ![u] = 0] ELSE curLoan
           /\ UNCHANGED <<shop, cooldown>>
           /\ Step(Rec("loan_phase2", u, u, [NoArg EXCEPT !.sid = i],
                       IF due THEN "poopi you messed up big time" ELSE ""))

repay_out(user_data) ==
    IF user_data.debt > 0
    THEN IF user_data.cash >= user_data.debt
         THEN "You've paid off your debt!"
         ELSE "You do not have enough balance"
    ELSE "You do not have any debt"

repay_doc(user_data) ==
    IF repay_out(user_data) = "You've paid off your debt!"
    THEN [user_data EXCEPT !.cash = @ - user_data.debt, !.debt = 0]
    ELSE user_data

repay_loan(u) ==
    LET paid == repay_out(acct[u]) = "You've paid off your debt!"
    IN  /\ acct' = [acct EXCEPT ![u] = repay_doc(acct[u])]
        /\ sched' = IF paid /\ curLoan[u] # 0
                    THEN [sched EXCEPT ![curLoan[u]].repaid = TRUE]
                    ELSE sched
        /\ curLoan' = IF paid THEN [curLoan EXCEPT ![u] = 0] ELSE curLoan
        /\ UNCHANGED <<shop, cooldown>>
        /\ Step(Rec("repay_loan", u, u, NoArg, repay_out(acct[u])))

\* ---------------------------------------------------------------- the shop
\* the count held before forgotten
inv_add_overwrite(inv, key, number) ==
    [k \in DOMAIN inv \cup {key} |-> IF k = key THEN number ELSE inv[k]]

\* user_data["inv"][key] += number, or = number on KeyError
inv_add(inv, key, number) ==
    [k \in DOMAIN inv \cup {key} |->
        IF k = key
        THEN (IF key \in DOMAIN inv THEN inv[key] + number ELSE number)
        ELSE inv[k]]

\* a command that raises changes nothing and sends nothing
Raised == "raised"

\* the stock check left out
in_stock_any(store_data, number) == TRUE

\* store_data['stock'] >= number, for a stock that is not None
in_stock(store_data, number) == store_data.stock[1] >= number

buy(u, number, item) ==
    LET name == Capitalize(Lower(item))
        key == Lower(item)
        user_data == acct[u]
        arg == [NoArg EXCEPT !.n = number, !.item = item]
        bought == [user_data EXCEPT !.cash = @ - number * shop[name].price,
                                    !.inv = inv_add(@, key, number)]
    IN  IF name \notin DOMAIN shop
        THEN /\ UNCHANGED <<acct, shop, sched, cooldown, curLoan>>
             /\ Step(Rec("buy", u, u, arg, Raised))
        ELSE IF user_data.cash >= number * shop[name].price
        THEN IF shop[name].stock # Unlimited
             THEN IF in_stock(shop[name], number)
                  THEN /\ shop' = [shop EXCEPT ![name].stock = <<@[1] - number>>]
                       /\ acct' = [acct EXCEPT ![u] = bought]
                       /\ UNCHANGED <<sched, cooldown, curLoan>>
                       /\ Step(Rec("buy", u, u, arg, "You bought"))
                  ELSE /\ UNCHANGED <<acct, shop, sched, cooldown, curLoan>>
                       /\ Step(Rec("buy", u, u, arg, "not enough stock"))
             ELSE /\ acct' = [acct EXCEPT ![u] = bought]
                  /\ UNCHANGED <<shop, sched, cooldown, curLoan>>
                  /\ Step(Rec("buy", u, u, arg, "You bought"))
        ELSE /\ UNCHANGED <<acct, shop, sched, cooldown, curLoan>>
             /\ Step(Rec("buy", u, u, arg, "you don't have enough moni"))

\* the items taken and nothing paid
sell_doc_unpaid(sell_data, store, key, n) ==
    [sell_data EXCEPT !.inv[key] = @ - n]

\* the seller's document after the sale
sell_doc(sell_data, store, key, n) ==
    [sell_data EXCEPT !.inv[key] = @ - n,
                      !.cash = @ + store.price * n]

sell(u, n, item) ==
    LET name == Capitalize(Lower(item))
        key == Lower(item)
        sell_data == acct[u]
        arg == [NoArg EXCEPT !.n = n, !.item = item]
    IN  IF key \notin DOMAIN sell_data.inv \/ name \notin DOMAIN shop
        THEN /\ UNCHANGED <<acct, shop, sched, cooldown, curLoan>>
             /\ Step(Rec("sell", u, u, arg, Raised))
        ELSE /\ acct' = [acct EXCEPT ![u] = sell_doc(sell_data, shop[name], key, n)]
             /\ UNCHANGED <<shop, sched, cooldown, curLoan>>
             /\ Step(Rec("sell", u, u, arg, "You sold"))

\* ---------------------------------------------------------------- transfer
\* update_one(filter, {"$set": doc}): the stored document becomes doc
update_one(coll, u, doc) == [coll EXCEPT ![u] = doc]

\* the sign check left out
givemoney_out_unsigned(sender, amount) ==
    IF sender.cash >= amount
    THEN "transferred"
    ELSE "You don't have enough money on hand"

givemoney_out(sender, amount) ==
    IF amount < 0
    THEN "You can't send negative money"
    ELSE IF sender.cash >= amount
         THEN "transferred"
         ELSE "You don't have enough money on hand"

givemoney(u, person, amount) ==
    LET sender == acct[u]
        reciever == acct[person]
        out == givemoney_out(sender, amount)
    IN  /\ acct' = IF out = "transferred"
                   THEN update_one(
                           update_one(acct, u, [sender EXCEPT !.cash = @ - amount]),
                           person, [reciever EXCEPT !.cash = @ + amount])
                   ELSE acct
        /\ UNCHANGED <<shop, sched, cooldown, curLoan>>
        /\ Step(Rec("givemoney", u, person, [NoArg EXCEPT !.n = amount], out))

\* --------------------------------------------------------------------- rob
HeistTools == "heist tools"

\* the bucket left used up
reset_cooldown_noop(cd, cmd, u) == cd

\* ctx.command.reset_cooldown(ctx): the invoker's bucket is free again
reset_cooldown(cd, cmd, u) == cd \ {<<cmd, u>>}

\* the handler's body, entered with the cooldown bucket just used up
rob_body(u, person, win_chance, win_percent, fine_amount) ==
    LET robber == acct[u]
        victim == acct[person]
        arg == [NoArg EXCEPT !.n = IF win_chance THEN win_percent ELSE fine_amount]
        consumed == cooldown \cup {<<"rob", u>>}
    IN  IF HeistTools \notin DOMAIN robber.inv
        THEN \* KeyError: rob_error resets the cooldown
             /\ cooldown' = reset_cooldown(consumed, "rob", u)
             /\ UNCHANGED <<acct, shop, sched, curLoan>>
             /\ Step(Rec("rob", u, person, arg, Raised))
        ELSE IF robber.inv[HeistTools] > 0 /\ victim.cash > 10
        THEN LET used == [robber EXCEPT !.inv[HeistTools] = @ - 1]
                 win_amount == IntTimes(victim.cash, win_percent, 100)
             IN  /\ acct' =
                       IF win_chance
                       THEN update_one(
                               update_one(acct, u, [used EXCEPT !.cash = @ + win_amount]),
                               person, [victim EXCEPT !.cash = @ - win_amount])
                       ELSE update_one(acct, u, [used EXCEPT !.cash = @ - fine_amount])
                 /\ cooldown' = consumed
                 /\ UNCHANGED <<shop, sched, curLoan>>
                 /\ Step(Rec("rob", u, person, arg,
                             IF win_chance THEN "You robbed" ELSE "You were caught"))
        ELSE /\ cooldown' = reset_cooldown(consumed, "rob", u)
             /\ UNCHANGED <<acct, shop, sched, curLoan>>
             /\ Step(Rec("rob", u, person, arg, "You do not have enough Heist tools"))

rob(u, person, win_chance, win_percent, fine_amount) ==
    IF OnCooldown("rob", u)
    THEN \* CommandOnCooldown: rob_error answers and leaves the bucket alone
         /\ UNCHANGED <<acct, shop, sched, cooldown, curLoan>>
         /\ Step(Rec("rob", u, person, NoArg, "Time remaining"))
    ELSE rob_body(u, person, win_chance, win_percent, fine_amount)

\* ----------------------------------------------------------------- use item
\* item names as the user of "use" types them; the store is asked for the
\* name as typed
UseTexts == {"Cookie", "cookie", "Heist tools"}

\* find_one gives None for a name the store does not have, and
\* store_data['role'] then raises TypeError.  'inv' is a dict: the loop runs
\* over its keys, which are strings, and i.keys() raises AttributeError in
\* its first turn, before anything is written.  With an empty 'inv' the loop
\* has no turn.
use_item(u, item) ==
    LET user_data == acct[u]
        arg == [NoArg EXCEPT !.item = item]
    IN  IF item \notin DOMAIN shop \/ DOMAIN user_data.inv # {}
        THEN /\ UNCHANGED <<acct, shop, sched, cooldown, curLoan>>
             /\ Step(Rec("use_item", u, u, arg, Raised))
        ELSE /\ acct' = update_one(acct, u, user_data)
             /\ UNCHANGED <<shop, sched, cooldown, curLoan>>
             /\ Step(Rec("use_item", u, u, arg,
                         IF shop[item].role # "None" THEN "Role added!"
                         ELSE "This item does not give a role"))

\* ------------------------------------------------------------ specification
\* one invocation of each handler, with any arguments; a behaviour ends when
\* its budget of steps is spent
AnyWithdraw ==
    budget > 0 /\ \E u \in Users, amount \in AmountTexts : withdraw(u, amount)

AnyDeposit ==
    budget > 0 /\ \E u \in Users, amount \in AmountTexts : deposit(u, amount)

AnyWork ==
    budget > 0 /\ \E u \in Users, rand_val \in WorkVals : work(u, rand_val)

AnySlut ==
    budget > 0 /\ \E u \in Users, roll \in SlutRolls, rand_val \in SlutVals :
                     slut(u, roll, rand_val)

AnyCrime ==
    budget > 0 /\ \E u \in Users, roll \in CrimeRolls :
                     \E rand_val \in (IF roll \in 1..4 THEN CrimeWinVals
                                                       ELSE CrimeLoseVals) :
                        crime(u, roll, rand_val)

AnyCooldownExpire ==
    budget > 0 /\ \E cmd \in Commands, u \in Users : cooldown_expire(cmd, u)

AnyLoan ==
    budget > 0 /\ \E u \in Users, loan_val \in LoanAmounts : loan(u, loan_val)

AnyLoanPhase1 ==
    budget > 0 /\ \E i \in 1..Len(sched) : loan_phase1(i)

AnyLoanPhase2 ==
    budget > 0 /\ \E i \in 1..Len(sched) : loan_phase2(i)

AnyRepayLoan ==
    budget > 0 /\ \E u \in Users : repay_loan(u)

AnyBuy ==
    budget > 0 /\ \E u \in Users, number \in Quantities, item \in ItemTexts :
                     buy(u, number, item)

AnySell ==
    budget > 0 /\ \E u \in Users, n \in Quantities, item \in ItemTexts :
                     sell(u, n, item)

AnyGivemoney ==
    budget > 0 /\ \E u \in Users, person \in Users, amount \in GiveAmounts :
                     givemoney(u, person, amount)

AnyRob ==
    budget > 0 /\ \E u \in Users, person \in Users, win_chance \in BOOLEAN :
                     \E win_percent \in RobPercents :
                        \E fine_amount \in (IF win_chance THEN {0} ELSE RobFines) :
                           rob(u, person, win_chance, win_percent, fine_amount)

AnyUseItem ==
    budget > 0 /\ \E u \in Users, item \in UseTexts : use_item(u, item)

\* the whole ledger, from accounts without debt
Next ==
    \/ AnyWithdraw \/ AnyDeposit
    \/ AnyWork \/ AnySlut \/ AnyCrime \/ AnyCooldownExpire
    \/ AnyLoan \/ AnyLoanPhase1 \/ AnyLoanPhase2 \/ AnyRepayLoan
    \/ AnyBuy \/ AnySell
    \/ AnyGivemoney
    \/ AnyRob \/ AnyUseItem

Spec == Init /\ [][Next]_vars

\* cash, bank and debt only: the commands that move money between them,
\* from every stored account
NextBank ==
    \/ AnyWithdraw \/ AnyDeposit
    \/ AnyGivemoney
    \/ AnyLoan \/ AnyRepayLoan

SpecBank == InitBankOnly /\ [][NextBank]_vars

\* loans of positive amounts and their timers
AnyPositiveLoan ==
    budget > 0 /\ \E u \in Users, loan_val \in {n \in LoanAmounts : n > 0} :
                     loan(u, loan_val)

NextLoan ==
    \/ AnyPositiveLoan \/ AnyLoanPhase1 \/ AnyLoanPhase2 \/ AnyRepayLoan

SpecLoan == InitLoan /\ [][NextLoan]_vars

\* the shop and the robberies: items, stock and the rob cooldown, from every
\* stored account
NextShop ==
    \/ AnyBuy \/ AnySell
    \/ AnyRob \/ AnyCooldownExpire

SpecShop == InitShopOnly /\ [][NextShop]_vars

\* commands that write an account while a loan's coroutine sleeps: the loan,
\* its timers, and the same or another user's repay, transfer and purchase
NextRace ==
    \/ AnyPositiveLoan \/ AnyLoanPhase1 \/ AnyLoanPhase2 \/ AnyRepayLoan
    \/ AnyGivemoney
    \/ AnyBuy

SpecRace == InitRace /\ [][NextRace]_vars

\* ------------------------------------------------------------- leaderboard
\* the balances of the listed accounts; cash below zero is a stored state
BoardCash == {-10, 0, 10}
BoardBank == {0, 10}

\* list(economy_collection.find()): the documents in the store's order,
\* each with its own user id
Listings ==
    UNION { { [i \in 1..n |-> [user |-> i, cash |-> f[i][1], bank |-> f[i][2],
                               debt |-> 0, inv |-> NoInv]] :
              f \in [1..n -> BoardCash \X BoardBank] } :
            n \in 0..MaxAccounts }

\* the bank left out of the comparison
out_of_order_cash(a, b) == a.cash > b.cash

\* the test that swaps two neighbours
out_of_order(a, b) == a.bank + a.cash > b.bank + b.cash

swap(data, j) ==
    [data EXCEPT ![j] = data[j + 1], ![j + 1] = data[j]]

\* for j in range(0, len - 1 - i), counted from 1 here
RECURSIVE inner_loop(_, _, _)
inner_loop(data, j, last) ==
    IF j > last
    THEN data
    ELSE inner_loop(IF out_of_order(data[j], data[j + 1]) THEN swap(data, j)
                                                          ELSE data,
                    j + 1, last)

\* for i in range(0, len)
RECURSIVE outer_loop(_, _)
outer_loop(data, i) ==
    IF i >= Len(data)
    THEN data
    ELSE outer_loop(inner_loop(data, 1, Len(data) - 1 - i), i + 1)

\* list.reverse()
reverse(data) == [k \in 1..Len(data) |-> data[Len(data) + 1 - k]]

leaderboard_data(found) == reverse(outer_loop(found, 0))

leaderboard(u) ==
    /\ budget > 0
    /\ budget' = budget - 1
    /\ ranking' = leaderboard_data(listing)
    /\ hist' = <<Rec("leaderboard", u, u, NoArg, "Crajy Leaderboard")>>
    /\ UNCHANGED <<acct, shop, sched, cooldown, curLoan, listing, metricsVars,
                   utilVars>>

AnyLeaderboard == budget > 0 /\ \E u \in Users : leaderboard(u)

InitBoard ==
    /\ LedgerFrom({[cash |-> 0, bank |-> 0, debt |-> 0, inv |-> NoInv]})
    /\ listing \in Listings
    /\ ranking = << >>
    /\ IdleMetrics
    /\ IdleUtil
    /\ budget = MaxBoardCalls

NextBoard == AnyLeaderboard

SpecBoard == InitBoard /\ [][NextBoard]_vars

\* ----------------------------------------------------------------- metrics
\* message.author: two members and a bot account; message.channel
Authors == {"a1", "a2", "b1"}
Bots == {"b1"}
Channels == {"c1", "c2"}

\* a document of the real metrics collection, written before this process
RealSnapshot ==
    [id |-> <<"real", 1>>, datetime |-> 0,
     author_counts |-> [a \in {"a1"} |-> 2],
     channel_counts |-> [c \in {"c1"} |-> 2]]

\* history: a step of the metrics cog and the state before it
MRec(op, author, channel) ==
    [op |-> op, author |-> author, channel |-> channel,
     pre |-> [author_cache |-> author_cache, channel_cache |-> channel_cache,
              cached_message_count |-> cached_message_count,
              test_metrics |-> test_metrics, dump |-> dump, owed |-> owed]]

MStep(rec) ==
    /\ budget > 0
    /\ budget' = budget - 1
    /\ mhist' = <<rec>>
    /\ UNCHANGED <<ledgerVars, boardVars, utilVars>>

\* the count before forgotten
count_up_restart(cache, key) ==
    [k \in DOMAIN cache \cup {key} |-> IF k = key THEN 1 ELSE cache[k]]

\* cache[key] += 1 on a defaultdict(lambda: 0)
count_up(cache, key) ==
    [k \in DOMAIN cache \cup {key} |->
        IF k = key
        THEN (IF key \in DOMAIN cache THEN cache[key] ELSE 0) + 1
        ELSE cache[k]]

on_message(author, channel) ==
    /\ IF author \in Bots
       THEN UNCHANGED <<author_cache, channel_cache, cached_message_count>>
       ELSE /\ author_cache' = count_up(author_cache, author)
            /\ channel_cache' = count_up(channel_cache, channel)
            /\ cached_message_count' = cached_message_count + 1
    /\ UNCHANGED <<last_stored_time, clock, bot_metrics, test_metrics, dump, owed>>
    /\ MStep(MRec("on_message", author, channel))

\* the loop's task: "unstarted", "due" (waiting for its next firing),
\* "inserting" (awaiting insert_one, nothing stored yet), "stored" (the
\* document is in the store, the await has not returned yet), "failed" (ended
\* by an exception)
Launched == {"due", "inserting", "stored"}

\* insert_many(data), ordered: the documents before the first one whose _id
\* the collection already has
Insertable(coll, data) ==
    LET taken == {coll[i].id : i \in 1..Len(coll)}
        dups == {j \in 1..Len(data) : data[j].id \in taken}
    IN  IF dups = {}
        THEN data
        ELSE SubSeq(data, 1, (CHOOSE j \in dups : \A k \in dups : j <= k) - 1)

\* start-metrics_: copy the real collection, then metrics_dump.start(); an
\* empty copy, a duplicate _id and a loop already launched each raise
start_metrics ==
    LET data == bot_metrics
        copied == test_metrics \o Insertable(test_metrics, data)
    IN  /\ test_metrics' = copied
        /\ dump' = IF /\ data # << >>
                      /\ Insertable(test_metrics, data) = data
                      /\ dump \notin Launched
                   THEN "due"
                   ELSE dump
        /\ UNCHANGED <<author_cache, channel_cache, cached_message_count,
                       last_stored_time, clock, bot_metrics, owed>>
        /\ MStep(MRec("start_metrics", "", ""))

\* stop-metrics_: only clears the test collection
stop_metrics ==
    /\ test_metrics' = << >>
    /\ UNCHANGED <<author_cache, channel_cache, cached_message_count,
                   last_stored_time, clock, bot_metrics, dump, owed>>
    /\ MStep(MRec("stop_metrics", "", ""))

\* the emptiness test left out
caches_nonempty_always(authors, channels) == TRUE

\* len(self.author_cache) != 0 or len(self.channel_cache) != 0
caches_nonempty(authors, channels) ==
    Cardinality(DOMAIN authors) # 0 \/ Cardinality(DOMAIN channels) # 0

\* the caches kept whether or not insert_one returns
after_insert_kept(raised, cache) == cache

\* the assignments after the await are reached only when insert_one returns
after_insert(raised, cache) == IF raised THEN cache ELSE NoInv

\* metrics_dump fires: up to the await of insert_one, or to its end when
\* there is nothing to insert
metrics_dump ==
    /\ dump = "due"
    /\ clock' = clock + 1
    /\ last_stored_time' = <<clock + 1>>
    /\ IF caches_nonempty(author_cache, channel_cache)
       THEN /\ dump' = "inserting"
            /\ UNCHANGED <<author_cache, channel_cache, cached_message_count>>
       ELSE /\ dump' = "due"
            /\ author_cache' = NoInv
            /\ channel_cache' = NoInv
            /\ cached_message_count' = 0
    /\ UNCHANGED <<bot_metrics, test_metrics, owed>>
    /\ MStep(MRec("metrics_dump", "", ""))

\* insert_doc refers to the cache dicts themselves: the store gets the counts
\* they hold when the document is encoded
insert_stored ==
    /\ dump = "inserting"
    /\ test_metrics' =
          Append(test_metrics,
                 [id |-> <<"dump", last_stored_time[1]>>,
                  datetime |-> last_stored_time[1],
                  author_counts |-> author_cache,
                  channel_counts |-> channel_cache])
    /\ dump' = "stored"
    /\ owed' = << >>
    /\ UNCHANGED <<author_cache, channel_cache, cached_message_count,
                   last_stored_time, clock, bot_metrics>>
    /\ MStep(MRec("insert_stored", "", ""))

\* the await returns and the handler runs to its end
insert_return ==
    /\ dump = "stored"
    /\ author_cache' = after_insert(FALSE, author_cache)
    /\ channel_cache' = after_insert(FALSE, channel_cache)
    /\ cached_message_count' = 0
    /\ dump' = "due"
    /\ UNCHANGED <<last_stored_time, clock, bot_metrics, test_metrics, owed>>
    /\ MStep(MRec("insert_return", "", ""))

\* the await raises instead, nothing stored: the loop calls the handler again
\* after a pause when the exception is one it retries on, and ends otherwise
insert_raise(retried) ==
    /\ dump = "inserting"
    /\ author_cache' = after_insert(TRUE, author_cache)
    /\ channel_cache' = after_insert(TRUE, channel_cache)
    /\ UNCHANGED cached_message_count
    /\ dump' = IF retried THEN "due" ELSE "failed"
    /\ owed' = <<[author_counts |-> author_cache,
                  channel_counts |-> channel_cache,
                  cached_message_count |-> cached_message_count]>>
    /\ UNCHANGED <<last_stored_time, clock, bot_metrics, test_metrics>>
    /\ MStep(MRec("insert_raise", "", ""))

AnyMessage ==
    budget > 0 /\ \E author \in Authors, channel \in Channels :
                     on_message(author, channel)

AnyStartMetrics == budget > 0 /\ start_metrics

AnyStopMetrics == budget > 0 /\ stop_metrics

AnyMetricsDump == budget > 0 /\ metrics_dump

AnyInsertStored == budget > 0 /\ insert_stored

AnyInsertReturn == budget > 0 /\ insert_return

AnyInsertRaise == budget > 0 /\ \E retried \in BOOLEAN : insert_raise(retried)

\* the cog as loaded, over a real collection with or without documents and a
\* test collection empty or holding an earlier copy
InitMetrics ==
    /\ LedgerFrom({[cash |-> 0, bank |-> 0, debt |-> 0, inv |-> NoInv]})
    /\ IdleBoard
    /\ IdleUtil
    /\ author_cache = NoInv
    /\ channel_cache = NoInv
    /\ cached_message_count = 0
    /\ last_stored_time = << >>
    /\ clock = 0
    /\ bot_metrics \in {<< >>, <<RealSnapshot>>}
    /\ test_metrics \in {<< >>, bot_metrics}
    /\ dump = "unstarted"
    /\ mhist = << >>
    /\ owed = << >>
    /\ budget = MaxMetricsSteps

NextMetrics ==
    \/ AnyMessage
    \/ AnyStartMetrics \/ AnyStopMetrics
    \/ AnyMetricsDump \/ AnyInsertStored \/ AnyInsertReturn \/ AnyInsertRaise

SpecMetrics == InitMetrics /\ [][NextMetrics]_vars

\* use_item after purchases, from accounts that hold items and that do not
InitUse == InitLedger(StoredDocs) /\ budget = MaxUseSteps

NextUse == AnyBuy \/ AnyUseItem

SpecUse == InitUse /\ [][NextUse]_vars

\* ---------------------------------------------------------------- graphing
\* utils/graphing.py: the axes of a plot, computed from the parsed snapshots.
\* A snapshot's time is kept as month, day and hour of one year.
Times ==
    { [month |-> 1, day |-> 1, hour |-> 0], [month |-> 1, day |-> 1, hour |-> 1],
      [month |-> 1, day |-> 2, hour |-> 0], [month |-> 2, day |-> 1, hour |-> 0] }

Earlier(s, t) ==
    \/ s.month < t.month
    \/ s.month = t.month /\ s.day < t.day
    \/ s.month = t.month /\ s.day = t.day /\ s.hour < t.hour

\* the counts one document holds: one author, two authors, another author
CountDocs ==
    { [author_counts |-> [a \in {"a1"} |-> 5],
       channel_counts |-> [c \in {"c1"} |-> 5]],
      [author_counts |-> [a \in {"a1", "a2"} |-> IF a = "a1" THEN 2 ELSE 3],
       channel_counts |-> [c \in {"c1", "c2"} |-> IF c = "c1" THEN 1 ELSE 4]],
      [author_counts |-> [a \in {"a2"} |-> 1],
       channel_counts |-> [c \in {"c2"} |-> 1]] }

parse_data(time, doc) ==
    [time |-> time, author_counts |-> doc.author_counts,
     channel_counts |-> doc.channel_counts]

\* what find(...) and parse_data hand over: the documents in the order they
\* were inserted, which is the ascending order of their times
ParsedData ==
    { d \in UNION { [1..n -> { parse_data(t, c) : t \in Times, c \in CountDocs }]
                    : n \in 0..MaxSnapshots } :
        \A n \in 1..(Len(d) - 1) : Earlier(d[n].time, d[n + 1].time) }

None == "None"

TypeArgs == {"total", "member", "channel", "hours"}

TimeUnits == {"hours", "days"}

ObjectArgs == {None, "a1", "c2"}

RECURSIVE sum_values(_, _)
sum_values(d, keys) ==
    IF keys = {} THEN 0
    ELSE LET k == CHOOSE k \in keys : TRUE
         IN  d[k] + sum_values(d, keys \ {k})

RECURSIVE sum(_)
sum(counts) == IF counts = << >> THEN 0 ELSE Head(counts) + sum(Tail(counts))

total_count(i) == sum_values(i.author_counts, DOMAIN i.author_counts)

\* a dict lookup: KeyError when the id has no count in the snapshot
get_personal_count(i, person) == i.author_counts[person]

get_channel_count(i, channel) == i.channel_counts[channel]

\* strftime("%H") and strftime("%d/%m/"): the fields of the time they print
clean_hours_repr(i) == <<"%H", i.time.hour>>

clean_date_repr(i) == <<"%d/%m/", i.time.day, i.time.month>>

date(i) == <<i.time.month, i.time.day>>

\* the scan of group_by_date from position index on; the loop ends without a
\* statement after it, and what it returns is grouped_elements
RECURSIVE group_scan(_, _, _, _, _)
group_scan(data, index, prev, current_group, grouped_elements) ==
    IF index > Len(data) THEN grouped_elements
    ELSE LET i == data[index]
         IN  IF index = 1
             THEN group_scan(data, 2, i, <<i>>, grouped_elements)
             ELSE IF date(i) = date(prev)
             THEN group_scan(data, index + 1, prev, Append(current_group, i),
                             grouped_elements)
             ELSE group_scan(data, index + 1, i, <<i>>,
                             Append(grouped_elements, current_group))

group_by_date(data) == group_scan(data, 1, << >>, << >>, << >>)

\* map_type[type_](i), for a type_ and an id the snapshot has
map_type(type_, object_, i) ==
    CASE type_ = "channel" -> get_channel_count(i, object_)
      [] type_ = "member" -> get_personal_count(i, object_)
      [] type_ = "total" -> total_count(i)

\* the lookups of map_type[type_](i) that raise KeyError
KeyErrorIn(type_, object_, i) ==
    \/ type_ \notin {"channel", "member", "total"}
    \/ type_ = "channel" /\ object_ \notin DOMAIN i.channel_counts
    \/ type_ = "member" /\ object_ \notin DOMAIN i.author_counts

get_day_counts(type_, object_, grouped_data) ==
    [g \in 1..Len(grouped_data) |->
        sum([n \in 1..Len(grouped_data[g]) |->
                map_type(type_, object_, grouped_data[g][n])])]

Axes(raised, object_, x, y) ==
    [raised |-> raised, key |-> object_, x |-> x, y |-> y]

\* line 94 tests type_; its branch looks type_ up in channel_or_member, which
\* has no key "hours", as soon as data has an element
get_counts_for(type_, object_, time_unit, data) ==
    IF type_ = "hours"
    THEN IF data = << >> THEN Axes("", object_, << >>, << >>)
         ELSE Axes("KeyError", object_, << >>, << >>)
    ELSE LET grouped == group_by_date(data)
         IN  IF \E g \in 1..Len(grouped) : \E n \in 1..Len(grouped[g]) :
                    KeyErrorIn(type_, object_, grouped[g][n])
             THEN Axes("KeyError", object_, << >>, << >>)
             ELSE Axes("", object_,
                       [g \in 1..Len(grouped) |-> clean_date_repr(grouped[g][1])],
                       get_day_counts(type_, object_, grouped))

\* one graphing call over the parsed snapshots, its arguments and its result
\* kept
Plotted(call) ==
    /\ budget > 0
    /\ budget' = budget - 1
    /\ plot' = <<call>>
    /\ UNCHANGED <<ledgerVars, boardVars, metricsVars, parsed, timearg,
                   converted>>

Call(op, type_, object_, time_unit, groups, axes) ==
    [op |-> op, type_ |-> type_, object_ |-> object_, time_unit |-> time_unit,
     groups |-> groups, axes |-> axes]

\* metrics, metrics user and metrics channel: time_unit is "hours" in all
\* three; the function itself takes either unit
counts_for(type_, object_, time_unit) ==
    Plotted(Call("get_counts_for", type_, object_, time_unit, << >>,
                 get_counts_for(type_, object_, time_unit, parsed)))

\* the grouping on its own, with the total of each group
day_counts ==
    LET grouped == group_by_date(parsed)
    IN  Plotted(Call("group_by_date", "total", None, "days", grouped,
                     Axes("", None, << >>,
                          get_day_counts("total", None, grouped))))

AnyCountsFor ==
    budget > 0 /\ \E type_ \in TypeArgs, object_ \in ObjectArgs,
                     time_unit \in TimeUnits :
                       counts_for(type_, object_, time_unit)

AnyDayCounts == budget > 0 /\ day_counts

InitSeries ==
    /\ LedgerFrom({[cash |-> 0, bank |-> 0, debt |-> 0, inv |-> NoInv]})
    /\ IdleBoard
    /\ IdleMetrics
    /\ parsed \in ParsedData
    /\ plot = << >>
    /\ timearg = << >>
    /\ converted = << >>
    /\ budget = MaxPlotCalls

NextSeries == AnyCountsFor \/ AnyDayCounts

SpecSeries == InitSeries /\ [][NextSeries]_vars

\* ---------------------------------------------------------------- durations
\* utils/timezone.py get_timedelta, which CustomTimeConverter.convert returns.
\* A text is the sequence of its characters.
ArgChars == {"6", "3", "h", "H", "d", "D", "x"}

ArgTexts == UNION { [1..n -> ArgChars] : n \in 0..MaxArgLen }

\* the for loop: digits go to time_, every other character to unit, wherever
\* they stand
RECURSIVE split_arg(_, _, _)
split_arg(arg, time_, unit) ==
    IF arg = << >> THEN [time_ |-> time_, unit |-> unit]
    ELSE IF Head(arg) \in Digits
         THEN split_arg(Tail(arg), Append(time_, Head(arg)), unit)
         ELSE split_arg(Tail(arg), time_, Append(unit, Head(arg)))

\* unit.startswith(c), the case of unit kept
startswith_cased(unit, c) == Len(unit) > 0 /\ unit[1] = c

\* unit.lower().startswith(c)
startswith_lower(unit, c) == Len(unit) > 0 /\ LowerChar(unit[1]) = c

\* datetime.timedelta keeps days and the seconds of the day left over
timedelta(days, hours) ==
    [days |-> days + (hours \div 24), seconds |-> (hours % 24) * 3600]

Timedelta(raised, delta, unit) ==
    [raised |-> raised, delta |-> delta, unit |-> unit]

\* int("") raises ValueError; a unit that starts with neither letter raises
\* TypeError
get_timedelta(arg) ==
    LET parts == split_arg(arg, << >>, << >>)
        time_ == DigitsVal(parts.time_)
    IN  IF parts.time_ = << >> THEN Timedelta("ValueError", << >>, "")
        ELSE IF startswith_lower(parts.unit, "h")
        THEN Timedelta("", <<timedelta(0, time_)>>, "hours")
        ELSE IF startswith_lower(parts.unit, "d")
        THEN Timedelta("", <<timedelta(time_, 0)>>, "days")
        ELSE Timedelta("TypeError", << >>, "")

convert ==
    /\ budget > 0
    /\ budget' = budget - 1
    /\ converted' = <<get_timedelta(timearg)>>
    /\ UNCHANGED <<ledgerVars, boardVars, metricsVars, parsed, plot, timearg>>

InitDuration ==
    /\ LedgerFrom({[cash |-> 0, bank |-> 0, debt |-> 0, inv |-> NoInv]})
    /\ IdleBoard
    /\ IdleMetrics
    /\ parsed = << >>
    /\ plot = << >>
    /\ timearg \in ArgTexts
    /\ converted = << >>
    /\ budget = MaxConversions

NextDuration == convert

SpecDuration == InitDuration /\ [][NextDuration]_vars

\* =================================================================== claims
\* the latest step, and the step before it when it was kept
Last == hist[1]
Acted(op) == hist # << >> /\ hist[1].op = op
Chained(op2, op1) == Len(hist) = 2 /\ hist[2].op = op2 /\ hist[1].op = op1

RECURSIVE SumCash(_, _)
SumCash(accounts, users) ==
    IF users = {} THEN 0
    ELSE LET u == CHOOSE x \in users : TRUE
         IN  accounts[u].cash + SumCash(accounts, users \ {u})

\* C1: starting from accounts with cash >= 0, bank >= 0 and debt = 0, every
\* account has cash >= 0 and bank >= 0 after any sequence of ledger operations.
C1_CashBankNonNegative ==
    \A u \in Users : acct[u].cash >= 0 /\ acct[u].bank >= 0

\* C2: a transfer, to anyone and of any amount, successful or not, leaves the
\* sum of cash over all accounts as it was.
C2_TransferKeepsTotalCash ==
    Acted("givemoney") => SumCash(acct, Users) = SumCash(Last.pre, Users)

\* C3: a transfer with amount < 0 or sender's cash < amount fails (negative
\* amount, or else insufficient funds) and leaves every field of every
\* account unchanged.
C3_FailedTransferChangesNothing ==
    Acted("givemoney") =>
        LET amount == Last.arg.n
            senderCash == Last.pre[Last.user].cash
        IN  /\ amount < 0 =>
                 /\ Last.out = "You can't send negative money"
                 /\ acct = Last.pre
            /\ (amount >= 0 /\ senderCash < amount) =>
                 /\ Last.out = "You don't have enough money on hand"
                 /\ acct = Last.pre

\* a transfer to another user refused for lack of cash
C3_Witness ==
    /\ Acted("givemoney")
    /\ Last.user # Last.target
    /\ Last.arg.n >= 0
    /\ Last.pre[Last.user].cash < Last.arg.n
    /\ acct = Last.pre

\* what the step left alone: the user's debt and inventory, and everybody else
OnlyCashAndBank(u) ==
    /\ acct[u].debt = Last.pre[u].debt
    /\ acct[u].inv = Last.pre[u].inv
    /\ \A v \in Users \ {u} : acct[v] = Last.pre[v]

ExampleDoc == [cash |-> 100, bank |-> 50, debt |-> 0, inv |-> NoInv]

\* C4: withdraw(amount) with amount <= bank moves amount from bank to cash,
\* with amount > bank it fails and changes nothing; withdraw("all") empties
\* the bank into cash and deposit("all") empties cash into the bank;
\* {cash 100, bank 50} -> withdraw(30) -> {130, 20} -> deposit("all") ->
\* {0, 150}; debt and inventory never change.
C4_WithdrawAndDepositAll ==
    /\ Acted("withdraw") =>
          LET u == Last.user
              txt == Last.arg.txt
              old == Last.pre[u]
          IN  /\ OnlyCashAndBank(u)
              /\ (IsIntText(txt) /\ IntOf(txt) <= old.bank) =>
                    /\ acct[u].bank = old.bank - IntOf(txt)
                    /\ acct[u].cash = old.cash + IntOf(txt)
                    /\ Last.out = "Withdrew"
              /\ (IsIntText(txt) /\ IntOf(txt) > old.bank) =>
                    /\ acct = Last.pre
                    /\ Last.out = "You do not have that much balance"
              /\ txt = <<"a", "l", "l">> =>
                    /\ acct[u].bank = 0
                    /\ acct[u].cash = old.cash + old.bank
    /\ Acted("deposit") =>
          LET u == Last.user
              txt == Last.arg.txt
              old == Last.pre[u]
          IN  /\ OnlyCashAndBank(u)
              /\ txt = <<"a", "l", "l">> =>
                    /\ acct[u].cash = 0
                    /\ acct[u].bank = old.bank + old.cash
    /\ (/\ Chained("withdraw", "deposit")
        /\ hist[2].pre[Last.user] = ExampleDoc
        /\ hist[2].arg.txt = <<"3", "0">>
        /\ Last.arg.txt = <<"a", "l", "l">>) =>
          /\ Last.pre[Last.user] = [ExampleDoc EXCEPT !.cash = 130, !.bank = 20]
          /\ acct[Last.user] = [ExampleDoc EXCEPT !.cash = 0, !.bank = 150]

\* the example: withdraw(30) and then deposit("all") on {cash 100, bank 50}
C4_Witness ==
    /\ Chained("withdraw", "deposit")
    /\ hist[2].pre[Last.user] = ExampleDoc
    /\ hist[2].arg.txt = <<"3", "0">>
    /\ Last.arg.txt = <<"a", "l", "l">>
    /\ acct[Last.user].cash = 0
    /\ acct[Last.user].bank = 150

\* C5: when withdraw(amount) succeeds and the deposit(amount) that follows
\* it at once succeeds, cash and bank are what they were before the withdraw.
C5_WithdrawThenDepositRestores ==
    (/\ Chained("withdraw", "deposit")
     /\ IsIntText(hist[2].arg.txt)
     /\ IsIntText(Last.arg.txt)
     /\ IntOf(hist[2].arg.txt) = IntOf(Last.arg.txt)
     /\ hist[2].out = "Withdrew"
     /\ Last.out = "Deposited") =>
        /\ acct[Last.user].cash = hist[2].pre[Last.user].cash
        /\ acct[Last.user].bank = hist[2].pre[Last.user].bank

\* withdraw(30) and deposit(30), both successful, from a bank balance that
\* covers it
C5_Witness ==
    /\ Chained("withdraw", "deposit")
    /\ hist[2].arg.txt = <<"3", "0">>
    /\ Last.arg.txt = <<"3", "0">>
    /\ hist[2].out = "Withdrew"
    /\ Last.out = "Deposited"
    /\ hist[2].pre[Last.user].bank >= 30
    /\ Last.pre[Last.user].cash = hist[2].pre[Last.user].cash + 30

\* floor(n * num / den)
Floor(n, num, den) == (n * num) \div den

\* n * num / den with its fraction dropped, towards zero
TowardZero(n, num, den) ==
    IF n * num >= 0 THEN (n * num) \div den ELSE 0 - ((0 - n * num) \div den)

\* the terms of the loan claims: what takeLoan must do with a given fee
LoanContract(fee) ==
    LET u == Last.user
        amount == Last.arg.n
        old == Last.pre[u]
    IN  IF amount < 2 * old.bank /\ old.debt = 0
        THEN /\ Last.out = "You took a loan"
             /\ acct[u].debt = old.debt + amount + fee
             /\ acct[u].bank = old.bank + amount
             /\ acct[u].cash = old.cash
        ELSE /\ Last.out = "You cannot take a loan"
             /\ acct = Last.pre
             /\ sched = Last.preSched

C7_DebtNonNegative == \A u \in Users : acct[u].debt >= 0

\* C8: takeLoan succeeds and repayLoan follows at once with cash >= debt:
\* then debt = 0, cash is down by exactly the debt and bank is as the loan
\* left it; repayLoan with debt = 0 or cash < debt fails and changes nothing.
C8_LoanThenRepay ==
    Acted("repay_loan") =>
        LET u == Last.user
            old == Last.pre[u]
        IN  /\ (/\ Chained("loan", "repay_loan")
                /\ hist[2].out = "You took a loan"
                /\ old.cash >= old.debt) =>
                   /\ acct[u].debt = 0
                   /\ acct[u].cash = old.cash - old.debt
                   /\ acct[u].bank = old.bank
            /\ (old.debt = 0 \/ old.cash < old.debt) =>
                   /\ Last.out # "You've paid off your debt!"
                   /\ acct = Last.pre

\* C9: once the loan that started a scheduler is repaid, a phase of that
\* scheduler that fires has no side effect: no reminder, no change of debt,
\* no charge, whatever the user did in between.
C9_RepaidLoanSilencesScheduler ==
    (/\ hist # << >>
     /\ Last.op \in {"loan_phase1", "loan_phase2"}
     /\ Last.preSched[Last.arg.sid].repaid) =>
        /\ Last.out = ""
        /\ acct = Last.pre

\* C10: phase 2 fires only after phase 1 fired with debt # 0; with debt # 0
\* it zeroes the debt and takes amount + floor(amount * 0.1) from cash, amount
\* being the principal of the scheduler's loan, and leaves bank and inventory
\* alone; with debt = 0 it changes nothing.
C10_DefaultPenalty ==
    Acted("loan_phase2") =>
        LET i == Last.arg.sid
            u == Last.user
            old == Last.pre[u]
            amount == Last.preSched[i].loan_val
        IN  /\ Last.preSched[i].pc = "sleep2"
            /\ IF old.debt # 0
               THEN /\ acct[u].debt = 0
                    /\ acct[u].cash = old.cash - (amount + Floor(amount, 10, 100))
                    /\ acct[u].bank = old.bank
                    /\ acct[u].inv = old.inv
                    /\ \A v \in Users \ {u} : acct[v] = Last.pre[v]
               ELSE acct = Last.pre

\* ------------------------------------------------------------------ the shop
\* the item a buy or sell step named, as the shop and the inventory know it
ShopName(rec) == Capitalize(Lower(rec.arg.item))
InvKey(rec) == Lower(rec.arg.item)

\* the count of an item in an inventory, 0 when the item is absent
Held(inv, key) == IF key \in DOMAIN inv THEN inv[key] ELSE 0

\* C11: buy(user, item, quantity), for every integer quantity and every item
\* the shop sells, succeeds exactly when cash >= quantity * price and the
\* stock is unlimited or >= quantity; on success cash goes down by
\* quantity * price, inventory[item] (0 if absent) goes up by quantity and a
\* finite stock goes down by quantity; on failure neither the accounts nor the
\* shop change.
C11_BuyContract ==
    (Acted("buy") /\ ShopName(Last) \in DOMAIN Last.preShop) =>
        LET u == Last.user
            quantity == Last.arg.n
            name == ShopName(Last)
            key == InvKey(Last)
            pre == Last.pre[u]
            item == Last.preShop[name]
            cost == quantity * item.price
            ok == /\ pre.cash >= cost
                  /\ item.stock = Unlimited \/ item.stock[1] >= quantity
        IN  /\ (Last.out = "You bought") <=> ok
            /\ ok =>
                 /\ acct[u].cash = pre.cash - cost
                 /\ key \in DOMAIN acct[u].inv
                 /\ acct[u].inv[key] = Held(pre.inv, key) + quantity
                 /\ shop[name].stock =
                        IF item.stock = Unlimited
                        THEN Unlimited
                        ELSE <<item.stock[1] - quantity>>
            /\ ~ok => acct = Last.pre /\ shop = Last.preShop

\* an item of finite stock bought by a user who already holds some of it
C11_Witness ==
    /\ Acted("buy")
    /\ Last.out = "You bought"
    /\ Last.arg.n > 0
    /\ ShopName(Last) = "Cookie"
    /\ Held(Last.pre[Last.user].inv, "cookie") > 0
    /\ shop["Cookie"].stock[1] < Last.preShop["Cookie"].stock[1]

\* C12: whatever buys and sells are made, by whichever users and in whatever
\* order, the stock of every item of finite stock is >= 0.
C12_StockNonNegative ==
    \A name \in DOMAIN shop :
        shop[name].stock # Unlimited => shop[name].stock[1] >= 0

\* a buy refused because the stock has run out
C12_Witness ==
    /\ Acted("buy")
    /\ Last.out = "not enough stock"
    /\ shop["Cookie"].stock[1] = 0

\* C13: for an account that holds none of an item, a successful buy of n of
\* it followed by sell of n of it, the price unchanged, leaves cash as it was
\* before the buy and inventory[item] = 0.
C13_BuyThenSellRestores ==
    ( /\ Chained("buy", "sell")
      /\ hist[2].out = "You bought"
      /\ InvKey(hist[2]) = InvKey(hist[1])
      /\ hist[2].arg.n = hist[1].arg.n
      /\ Held(hist[2].pre[Last.user].inv, InvKey(Last)) = 0
      /\ shop[ShopName(Last)].price = hist[2].preShop[ShopName(Last)].price ) =>
        /\ Last.out = "You sold"
        /\ acct[Last.user].cash = hist[2].pre[Last.user].cash
        /\ acct[Last.user].inv[InvKey(Last)] = 0

\* an item bought and sold back by a user whose inventory had no entry for it
C13_Witness ==
    /\ Chained("buy", "sell")
    /\ hist[2].out = "You bought"
    /\ Last.out = "You sold"
    /\ InvKey(hist[2]) = InvKey(hist[1])
    /\ hist[2].arg.n = hist[1].arg.n
    /\ Last.arg.n > 0
    /\ InvKey(Last) \notin DOMAIN hist[2].pre[Last.user].inv
    /\ acct[Last.user].cash # hist[1].pre[Last.user].cash

\* no inventory holds a negative quantity
InvNonNegative(accounts) ==
    \A u \in Users : \A k \in DOMAIN accounts[u].inv : accounts[u].inv[k] >= 0

\* C14: sell with quantity > inventory[item] fails and changes neither cash
\* nor inventory, so that no sell makes an inventory quantity negative.
C14_SellMoreThanHeld ==
    Acted("sell") =>
        LET held == Held(Last.pre[Last.user].inv, InvKey(Last))
        IN  /\ Last.arg.n > held =>
                 /\ Last.out # "You sold"
                 /\ acct = Last.pre
            /\ InvNonNegative(Last.pre) => InvNonNegative(acct)

\* --------------------------------------------------------------------- rob
\* the rob step's precondition, on the accounts as they were before it
RobPrecondition(rec) ==
    /\ Held(rec.pre[rec.user].inv, HeistTools) > 0
    /\ rec.pre[rec.target].cash > 10

RobOnCooldown(rec) == <<"rob", rec.user>> \in rec.preCd

\* C15: rob invoked while the user's rob cooldown is active fails with
\* OnCooldown, changes no field of any account and neither extends nor resets
\* the cooldown.
C15_RobOnCooldownChangesNothing ==
    (Acted("rob") /\ RobOnCooldown(Last)) =>
        /\ Last.out = "Time remaining"
        /\ acct = Last.pre
        /\ cooldown = Last.preCd

\* a rob that would have gone through, rejected because the one before it did
C15_Witness ==
    /\ Chained("rob", "rob")
    /\ hist[2].out \in {"You robbed", "You were caught"}
    /\ RobOnCooldown(Last)
    /\ RobPrecondition(Last)
    /\ Last.out = "Time remaining"

\* C16: a rob whose precondition fails (no heist tools, or victim's cash <= 10)
\* changes no account and leaves the cooldown unconsumed, so the user's next
\* rob is not rejected with OnCooldown; a rob whose precondition passes leaves
\* the cooldown consumed, whether the robbery succeeds or fails.
C16_RobCooldownFollowsPrecondition ==
    /\ (Acted("rob") /\ ~RobOnCooldown(Last) /\ ~RobPrecondition(Last)) =>
          /\ acct = Last.pre
          /\ <<"rob", Last.user>> \notin cooldown
    /\ (Chained("rob", "rob") /\ ~RobOnCooldown(hist[2])
                              /\ ~RobPrecondition(hist[2])) =>
          Last.out # "Time remaining"
    /\ (Acted("rob") /\ ~RobOnCooldown(Last) /\ RobPrecondition(Last)) =>
          /\ Last.out \in {"You robbed", "You were caught"}
          /\ <<"rob", Last.user>> \in cooldown

\* a rob refused for the victim's lack of cash, and the same user's next rob,
\* of somebody else, going through
C16_Witness ==
    /\ Chained("rob", "rob")
    /\ ~RobOnCooldown(hist[2])
    /\ ~RobPrecondition(hist[2])
    /\ Last.out \in {"You robbed", "You were caught"}
    /\ <<"rob", Last.user>> \in cooldown

\* ------------------------------------------------------------- leaderboard
Worth(doc) == doc.cash + doc.bank

\* C17: leaderboard returns a permutation of all accounts in which, for every
\* adjacent pair, the earlier account's cash + bank is >= the later one's.
C17_LeaderboardSortedPermutation ==
    Acted("leaderboard") =>
        /\ Len(ranking) = Len(listing)
        /\ \A i \in 1..Len(listing) :
              Cardinality({k \in 1..Len(ranking) : ranking[k] = listing[i]}) = 1
        /\ \A k \in 1..(Len(ranking) - 1) :
              Worth(ranking[k]) >= Worth(ranking[k + 1])

\* four accounts, stored in an order that is neither ascending nor
\* descending, two of them with the same total made up differently
C17_Witness ==
    /\ Acted("leaderboard")
    /\ Len(listing) = 4
    /\ \E i, j \in 1..3 : /\ Worth(listing[i]) < Worth(listing[i + 1])
                          /\ Worth(listing[j]) > Worth(listing[j + 1])
    /\ \E i, j \in 1..4 : /\ i # j
                          /\ Worth(listing[i]) = Worth(listing[j])
                          /\ listing[i].cash # listing[j].cash
    /\ ranking # listing

\* ----------------------------------------------------------------- metrics
MLast == mhist[1]
MActed(op) == mhist # << >> /\ mhist[1].op = op

\* a cache that differs from another in one key, whose count is one more
OneMore(cache, before, key) ==
    /\ DOMAIN cache = DOMAIN before \cup {key}
    /\ cache[key] = Held(before, key) + 1
    /\ \A k \in DOMAIN before \ {key} : cache[k] = before[k]

\* C18: recordMessage from a bot author changes no counter; from any other
\* author it increases author_cache[authorId], channel_cache[channelId] and
\* cached_message_count by exactly 1 each and leaves every other cache entry
\* and every stored snapshot unchanged.
C18_RecordMessageFrame ==
    MActed("on_message") =>
        /\ test_metrics = MLast.pre.test_metrics
        /\ IF MLast.author \in Bots
           THEN /\ author_cache = MLast.pre.author_cache
                /\ channel_cache = MLast.pre.channel_cache
                /\ cached_message_count = MLast.pre.cached_message_count
           ELSE /\ OneMore(author_cache, MLast.pre.author_cache, MLast.author)
                /\ OneMore(channel_cache, MLast.pre.channel_cache, MLast.channel)
                /\ cached_message_count = MLast.pre.cached_message_count + 1

\* a member's second message, in a second channel, with another member's
\* count in the cache and a snapshot in the store
C18_Witness ==
    /\ MActed("on_message")
    /\ MLast.author \notin Bots
    /\ MLast.author \in DOMAIN MLast.pre.author_cache
    /\ MLast.channel \notin DOMAIN MLast.pre.channel_cache
    /\ DOMAIN MLast.pre.author_cache # {MLast.author}
    /\ test_metrics # << >>
    /\ cached_message_count = 3

\* a message of a bot account, with counts in the caches
C18_BotWitness ==
    /\ MActed("on_message")
    /\ MLast.author \in Bots
    /\ cached_message_count > 0

\* the snapshots the loop wrote
Dumped == {i \in 1..Len(test_metrics) : test_metrics[i].id[1] = "dump"}

\* C19: each flush appends exactly one snapshot holding the current author
\* and channel counts when the caches are non-empty and appends nothing when
\* they are empty (no snapshot with all counts zero is ever written); after a
\* flush whose write did not fail the caches are empty and
\* cached_message_count = 0.
C19_FlushWritesAndResets ==
    /\ MActed("metrics_dump") =>
          /\ test_metrics = MLast.pre.test_metrics
          /\ IF MLast.pre.author_cache = NoInv /\ MLast.pre.channel_cache = NoInv
             THEN /\ dump = "due"
                  /\ author_cache = NoInv
                  /\ channel_cache = NoInv
                  /\ cached_message_count = 0
             ELSE dump = "inserting"
    /\ MActed("insert_stored") =>
          /\ MLast.pre.dump = "inserting"
          /\ Len(test_metrics) = Len(MLast.pre.test_metrics) + 1
          /\ SubSeq(test_metrics, 1, Len(MLast.pre.test_metrics))
                = MLast.pre.test_metrics
          /\ test_metrics[Len(test_metrics)].author_counts = author_cache
          /\ test_metrics[Len(test_metrics)].channel_counts = channel_cache
          /\ dump = "stored"
    /\ MActed("insert_return") =>
          /\ MLast.pre.dump = "stored"
          /\ test_metrics = MLast.pre.test_metrics
          /\ author_cache = NoInv
          /\ channel_cache = NoInv
          /\ cached_message_count = 0
    /\ \A i \in Dumped :
          /\ \E a \in DOMAIN test_metrics[i].author_counts :
                test_metrics[i].author_counts[a] > 0
          /\ \E c \in DOMAIN test_metrics[i].channel_counts :
                test_metrics[i].channel_counts[c] > 0

\* a flush that wrote the counts of two members, back from its await
C19_Witness ==
    /\ MActed("insert_return")
    /\ Dumped # {}
    /\ \E i \in Dumped : Cardinality(DOMAIN test_metrics[i].author_counts) = 2
    /\ MLast.pre.cached_message_count > 0
    /\ cached_message_count = 0

\* the second firing of the loop, after a snapshot was written, finding the
\* caches empty
C19_EmptyWitness ==
    /\ MActed("metrics_dump")
    /\ MLast.pre.author_cache = NoInv
    /\ MLast.pre.dump = "due"
    /\ last_stored_time = <<2>>
    /\ Dumped # {}

\* every count of the second mapping is reached in the first
Covers(counts, kept) ==
    \A k \in DOMAIN kept : k \in DOMAIN counts /\ counts[k] >= kept[k]

\* the failed write itself resets nothing and stores nothing
FailedWriteKeepsCounts ==
    MActed("insert_raise") =>
        /\ caches_nonempty(MLast.pre.author_cache, MLast.pre.channel_cache)
        /\ author_cache = MLast.pre.author_cache
        /\ channel_cache = MLast.pre.channel_cache
        /\ cached_message_count = MLast.pre.cached_message_count
        /\ test_metrics = MLast.pre.test_metrics

\* the counts stay in the caches, and the next snapshot stored holds them
KeptCountsReachNextSnapshot ==
    /\ owed # << >> =>
          /\ Covers(author_cache, owed[1].author_counts)
          /\ Covers(channel_cache, owed[1].channel_counts)
          /\ cached_message_count >= owed[1].cached_message_count
    /\ (MActed("insert_stored") /\ MLast.pre.owed # << >>) =>
          LET written == test_metrics[Len(test_metrics)]
              kept == MLast.pre.owed[1]
          IN  /\ Covers(written.author_counts, kept.author_counts)
              /\ Covers(written.channel_counts, kept.channel_counts)

\* while counts are kept from a failed write the loop is still launched, so
\* that a later flush fires
FlushStillDue == owed # << >> => dump \in Launched

\* C20: if the store write of a flush with non-empty caches fails, the caches
\* and the total counter keep the counts they held before the flush (they are
\* not reset), and those counts are written by a later flush.
C20_FailedWriteKeepsCounts ==
    /\ FailedWriteKeepsCounts
    /\ KeptCountsReachNextSnapshot
    /\ FlushStillDue

\* the snapshot the loop stored last
LastDumped == test_metrics[CHOOSE i \in Dumped : \A j \in Dumped : j <= i]

\* C21: under every interleaving of recordMessage with flush, a message
\* recorded while the flush awaits its store write included, every message of
\* a non-bot author is counted in exactly one persisted snapshot: while a
\* flush is between its write and its reset, the counts the reset is about to
\* drop are the counts of the snapshot it wrote.
C21_NoMessageDroppedByReset ==
    (dump = "stored" /\ Dumped # {}) =>
        /\ LastDumped.author_counts = author_cache
        /\ LastDumped.channel_counts = channel_cache

\* C22: the aggregator is STOPPED initially, TRACKING after start and STOPPED
\* again after stop; flush fires and snapshots are written only while
\* TRACKING, so after an explicit stop no flush is due and none is under way
\* until the next start.
C22_StoppedAfterStop ==
    /\ mhist = << >> => dump = "unstarted"
    /\ MActed("stop_metrics") => dump \notin Launched
    /\ (MActed("metrics_dump") \/ MActed("insert_stored")) =>
          MLast.pre.dump \in Launched

\* ------------------------------------------------------------- lost updates
\* what a step may write of an account, given the operation; everything else
\* of the account is as the step before left it
Kept(op, doc, before) ==
    CASE op = "loan" -> doc.cash = before.cash /\ doc.inv = before.inv
      [] op = "loan_phase1" -> doc = before
      [] op = "loan_phase2" -> doc.bank = before.bank /\ doc.inv = before.inv
      [] op = "repay_loan" -> doc.bank = before.bank /\ doc.inv = before.inv
      [] op = "givemoney" -> /\ doc.bank = before.bank
                             /\ doc.debt = before.debt
                             /\ doc.inv = before.inv
      [] op = "buy" -> doc.bank = before.bank /\ doc.debt = before.debt
      [] OTHER -> TRUE

\* C23: under any interleaving of ledger commands and loan-scheduler phases
\* that touch the same account, the accounts end as if the operations had run
\* one at a time in the order of their writes: each operation writes what it
\* computes from the accounts as the operation before it left them, and
\* overwrites nothing else (no lost update).  In particular the default of a
\* loan keeps what the same user bought after the coroutine's earlier reads.
C23_NoLostUpdate ==
    /\ hist # << >> =>
          /\ \A v \in Users \ {Last.user, Last.target} : acct[v] = Last.pre[v]
          /\ \A v \in {Last.user, Last.target} :
                Kept(Last.op, acct[v], Last.pre[v])
    /\ (Acted("loan_phase2") /\ Last.pre[Last.user].debt # 0) =>
          LET loan_val == Last.preSched[Last.arg.sid].loan_val
          IN  /\ acct[Last.user].debt = 0
              /\ acct[Last.user].cash =
                    Last.pre[Last.user].cash
                       - (loan_val + TowardZero(loan_val, 10, 100))
    /\ (Chained("buy", "loan_phase2") /\ hist[2].out = "You bought") =>
          LET u == Last.user
              key == InvKey(hist[2])
              number == hist[2].arg.n
          IN  /\ key \in DOMAIN acct[u].inv
              /\ acct[u].inv[key] = Held(hist[2].pre[u].inv, key) + number
              /\ shop = Last.preShop

\* a loan, its reminder, a purchase by the borrower while the coroutine
\* sleeps, and the default, which leaves the purchase in place
C23_Witness ==
    /\ Chained("buy", "loan_phase2")
    /\ hist[2].out = "You bought"
    /\ hist[2].arg.n > 0
    /\ Last.out = "poopi you messed up big time"
    /\ acct[Last.user].inv # NoInv
    /\ acct[Last.user].cash < hist[2].pre[Last.user].cash

\* ---------------------------------------------------------------- graphing
Plot == plot[1]

Graphed(op) == plot # << >> /\ Plot.op = op

\* every snapshot has a count for what is asked
Counted(type_, object_, data) ==
    \A n \in 1..Len(data) : ~KeyErrorIn(type_, object_, data[n])

\* C24: a series asked for in hours has, for the total, for a member and for
\* a channel alike, one x label and one y value for each snapshot handed in,
\* in the order handed in: the hour label of that snapshot and the count of
\* that snapshot alone, nothing summed over the snapshots of a day.
C24_HoursSeriesPerSnapshot ==
    ( /\ Graphed("get_counts_for")
      /\ Plot.time_unit = "hours"
      /\ Plot.type_ \in {"total", "member", "channel"}
      /\ Counted(Plot.type_, Plot.object_, parsed) ) =>
        /\ Plot.axes.raised = ""
        /\ Len(Plot.axes.x) = Len(parsed)
        /\ Len(Plot.axes.y) = Len(parsed)
        /\ \A n \in 1..Len(parsed) :
              /\ Plot.axes.x[n] = clean_hours_repr(parsed[n])
              /\ Plot.axes.y[n] = map_type(Plot.type_, Plot.object_, parsed[n])

RECURSIVE Flat(_)
Flat(groups) ==
    IF groups = << >> THEN << >> ELSE Head(groups) \o Flat(Tail(groups))

\* C25: grouping snapshots that are in ascending order of time by day gives
\* the longest runs of one calendar date, in order; every snapshot is in
\* exactly one group, the run of the last day too; and the sums of the days
\* add up to the sum over all the snapshots.
C25_GroupsAreTheDayRuns ==
    Graphed("group_by_date") =>
        /\ Flat(Plot.groups) = parsed
        /\ \A g \in 1..Len(Plot.groups) :
              /\ Plot.groups[g] # << >>
              /\ \A n \in 1..Len(Plot.groups[g]) :
                    date(Plot.groups[g][n]) = date(Plot.groups[g][1])
        /\ \A g \in 1..(Len(Plot.groups) - 1) :
              date(Plot.groups[g][1]) # date(Plot.groups[g + 1][1])
        /\ sum(Plot.axes.y) = sum([n \in 1..Len(parsed) |-> total_count(parsed[n])])

\* ---------------------------------------------------------------- durations
\* the digits a text starts with, and what follows them
RECURSIVE DigitRun(_)
DigitRun(text) ==
    IF text # << >> /\ Head(text) \in Digits
    THEN <<Head(text)>> \o DigitRun(Tail(text))
    ELSE << >>

UnitRun(text) == SubSeq(text, Len(DigitRun(text)) + 1, Len(text))

\* a run of digits and then a run of characters that are not digits
WellFormed(text) ==
    /\ DigitRun(text) # << >>
    /\ UnitRun(text) # << >>
    /\ \A n \in 1..Len(UnitRun(text)) : UnitRun(text)[n] \notin Digits

Seconds(delta) == delta.days * 86400 + delta.seconds

Converted == converted[1]

\* C26: for a text of digits n and then a unit, the conversion gives n hours
\* and "hours" if the unit starts with h or H, n days and "days" if it starts
\* with d or D, and for any other unit fails with the unsupported-unit error
\* and gives no duration.
C26_DurationOfDigitsAndUnit ==
    (converted # << >> /\ WellFormed(timearg)) =>
        LET n == DigitsVal(DigitRun(timearg))
            first == UnitRun(timearg)[1]
        IN  /\ first \in {"h", "H"} =>
                /\ Converted.raised = ""
                /\ Converted.unit = "hours"
                /\ Seconds(Converted.delta[1]) = n * 3600
            /\ first \in {"d", "D"} =>
                /\ Converted.raised = ""
                /\ Converted.unit = "days"
                /\ Seconds(Converted.delta[1]) = n * 86400
            /\ first \notin {"h", "H", "d", "D"} =>
                /\ Converted.raised = "TypeError"
                /\ Converted.delta = << >>

\* "36H" is converted to a day and a half, "hours"
C26_Witness ==
    /\ converted # << >>
    /\ timearg = <<"3", "6", "H">>
    /\ Converted.unit = "hours"
    /\ Converted.delta = <<[days |-> 1, seconds |-> 43200]>>

\* "6x" is refused
C26_RefusedWitness ==
    /\ converted # << >>
    /\ timearg = <<"6", "x">>
    /\ Converted.raised = "TypeError"

\* ------------------------------------------------------ use item, rob, ties
\* C27: using an item the user holds takes exactly one of it from the
\* inventory, leaves cash, bank, debt and the other inventory entries as they
\* were, and grants a role exactly when the item in the shop has one.
C27_UseItemTakesOne ==
    ( /\ Acted("use_item")
      /\ Last.arg.item \in DOMAIN Last.preShop
      /\ Held(Last.pre[Last.user].inv, InvKey(Last)) > 0 ) =>
        LET before == Last.pre[Last.user]
            after == acct[Last.user]
        IN  /\ after = [before EXCEPT
                           !.inv[InvKey(Last)] = before.inv[InvKey(Last)] - 1]
            /\ \A u \in Users \ {Last.user} : acct[u] = Last.pre[u]
            /\ Last.out = "Role added!"
                   <=> Last.preShop[Last.arg.item].role # "None"
            /\ Last.out \in {"Role added!", "This item does not give a role"}

\* C28: a rob that passes the precondition (the robber holds a heist tool and
\* the victim has more than 10 in cash) takes exactly one heist tool from the
\* robber's stored inventory, whether it succeeds or fails and whoever the
\* victim is, the robber included; the quantity never goes below zero.
C28_RobConsumesOneTool ==
    (Acted("rob") /\ ~RobOnCooldown(Last) /\ RobPrecondition(Last)) =>
        /\ Held(acct[Last.user].inv, HeistTools)
              = Held(Last.pre[Last.user].inv, HeistTools) - 1
        /\ Held(acct[Last.user].inv, HeistTools) >= 0

\* what is left of an account besides its cash
NotCash(doc) == [bank |-> doc.bank, debt |-> doc.debt]

\* C29: a successful rob moves an amount w, more than half the victim's cash
\* less one and at most eight tenths of it, from the victim's cash to the
\* robber's, and the cash of all accounts together stays what it was, whoever
\* robs whom; a failed rob takes between 75 and 200 from the robber's cash
\* only and leaves the victim as they were.
C29_RobMovesCash ==
    /\ (Acted("rob") /\ Last.out = "You robbed") =>
          /\ \E w \in 0..Last.pre[Last.target].cash :
                /\ 10 * w > 5 * Last.pre[Last.target].cash - 10
                /\ 10 * w <= 8 * Last.pre[Last.target].cash
                /\ \A u \in Users :
                      acct[u].cash = Last.pre[u].cash
                                       + (IF u = Last.user THEN w ELSE 0)
                                       - (IF u = Last.target THEN w ELSE 0)
          /\ SumCash(acct, Users) = SumCash(Last.pre, Users)
          /\ \A u \in Users : NotCash(acct[u]) = NotCash(Last.pre[u])
    /\ (Acted("rob") /\ Last.out = "You were caught") =>
          /\ Last.pre[Last.user].cash - acct[Last.user].cash \in 75..200
          /\ NotCash(acct[Last.user]) = NotCash(Last.pre[Last.user])
          /\ \A u \in Users \ {Last.user} : acct[u] = Last.pre[u]

\* where an account stands in the list read from the store
PlaceIn(list, doc) == CHOOSE i \in 1..Len(list) : list[i] = doc

\* C30: the leaderboard is stable: two accounts with the same cash + bank
\* stand in the result in the order in which they stand in the list of
\* accounts read from the store.
C30_LeaderboardStable ==
    Acted("leaderboard") =>
        \A k, l \in 1..Len(ranking) :
            (k < l /\ Worth(ranking[k]) = Worth(ranking[l])) =>
                PlaceIn(listing, ranking[k]) < PlaceIn(listing, ranking[l])

\* ------------------------------------------------------------ cache totals
\* the messages a dict of counts stands for
RECURSIVE TotalOver(_, _)
TotalOver(counts, keys) ==
    IF keys = {} THEN 0
    ELSE LET k == CHOOSE x \in keys : TRUE
         IN  counts[k] + TotalOver(counts, keys \ {k})

Total(counts) == TotalOver(counts, DOMAIN counts)

\* C31: in every reachable state of the metrics cog the counts of
\* author_cache, the counts of channel_cache and cached_message_count add up
\* to the same number; every count kept is positive, so author_cache is
\* empty exactly when channel_cache is; and every snapshot the dump has
\* written has the same total over its authors as over its channels.
C31_CacheTotalsAgree ==
    /\ Total(author_cache) = cached_message_count
    /\ Total(channel_cache) = cached_message_count
    /\ author_cache = NoInv <=> channel_cache = NoInv
    /\ \A k \in DOMAIN author_cache : author_cache[k] > 0
    /\ \A k \in DOMAIN channel_cache : channel_cache[k] > 0
    /\ \A i \in Dumped :
          Total(test_metrics[i].author_counts)
              = Total(test_metrics[i].channel_counts)

\* two authors in one channel written as a snapshot, and a third message
\* counted before the write has returned
C31_Witness ==
    /\ dump = "stored"
    /\ Dumped # {}
    /\ Cardinality(DOMAIN LastDumped.author_counts) = 2
    /\ Cardinality(DOMAIN LastDumped.channel_counts) = 1
    /\ Total(LastDumped.author_counts) = 2
    /\ cached_message_count = 3

\* counts that outlived a failed write, and a message counted after it
C31_FailedWriteWitness ==
    /\ owed # << >>
    /\ cached_message_count > owed[1].cached_message_count
    /\ Cardinality(DOMAIN author_cache) = 2
====
